---- MODULE Spec2Model ----
\* Model of plugins/inline.py: the inline-query handler `answer`, its access
\* gate `inline_users`, the query parser, the caption formatter and the two
\* response branches.  Python strings are sequences of one-character strings;
\* the fixed literals of the source (emoji, " Results - ", "okDa", ...) are
\* single tokens of such a sequence.
EXTENDS Integers, Sequences, FiniteSets, TLC

\* ------------------------------------------------------------------ bounds
MaxQueryLen == 4        \* longest query text given to the parser alone
MaxFiles == 1           \* most file records one search page returns

\* ------------------------------------------------------------ value domains
None == <<"None">>      \* Python's None where a string may stand
NoUser == 0             \* query.from_user is None (Telegram ids are positive)
EndOfResults == -1      \* the search collaborator's next_offset ''
UserIds == {1, 2}
Whitespace == {" "}
QueryChars == {"a", "B", " ", "|"}
DigitChars == <<"0", "1", "2", "3", "4", "5", "6", "7", "8", "9">>
SampleQueries == {<<>>, <<"a", " ">>, <<"a", "|", "B">>}
OffsetTokens == {None, <<>>, <<"1", "0">>, <<"x">>}
CacheTimes == {0, 300}
Channels == {None, <<"@chan">>}
Placeholders == {"{file_name}", "{file_size}", "{file_caption}"}
UnknownPlaceholders == {"{mystery}"}
CaptionTemplates ==
    { None,
      <<"{file_name}", " - ", "{file_size}">>,
      <<"{file_caption}", "{mystery}">> }
FileRecords ==
    { [file_id |-> 1, file_name |-> <<"a", ".", "m">>, file_size |-> 10,
       caption |-> None, file_type |-> <<"video">>],
      [file_id |-> 2, file_name |-> <<"b", ".", "m">>, file_size |-> 20,
       caption |-> <<"c", "a", "p">>, file_type |-> <<"document">>] }
NextOffsets == {EndOfResults, 10}
TotalSlack == {0, 11}
SendOutcomes == {"ok", "QueryIdInvalid", "RPCError"}
SearchOutcomes == {"ok", "error"}

Range(s) == {s[i] : i \in 1..Len(s)}

RECURSIVE SeqsUpTo(_, _)
SeqsUpTo(S, n) ==
    IF n = 0 THEN {<<>>}
    ELSE LET shorter == SeqsUpTo(S, n - 1)
         IN  shorter \cup {Append(s, c) : s \in {t \in shorter : Len(t) = n - 1}, c \in S}

\* ----------------------------------------------------------- Python strings
RECURSIVE lstrip(_)
lstrip(s) == IF s # <<>> /\ Head(s) \in Whitespace THEN lstrip(Tail(s)) ELSE s

RECURSIVE rstrip(_)
rstrip(s) ==
    IF s # <<>> /\ s[Len(s)] \in Whitespace THEN rstrip(SubSeq(s, 1, Len(s) - 1)) ELSE s

strip(s) == rstrip(lstrip(s))

lower_char(c) == IF c = "B" THEN "b" ELSE IF c = "A" THEN "a" ELSE c

lower(s) == [i \in 1..Len(s) |-> lower_char(s[i])]

RECURSIVE find(_, _, _)
find(s, c, i) == IF i > Len(s) THEN 0 ELSE IF s[i] = c THEN i ELSE find(s, c, i + 1)

RECURSIVE py_str(_)
py_str(n) ==
    IF n < 10 THEN <<DigitChars[n + 1]>>
    ELSE py_str(n \div 10) \o <<DigitChars[(n % 10) + 1]>>

IsDigit(c) == \E d \in 1..10 : DigitChars[d] = c

DigitValue(c) == (CHOOSE d \in 1..10 : DigitChars[d] = c) - 1

RECURSIVE DecimalValue(_)
DecimalValue(s) ==
    IF s = <<>> THEN 0
    ELSE 10 * DecimalValue(SubSeq(s, 1, Len(s) - 1)) + DigitValue(s[Len(s)])

\* ------------------------------------------------------------------- state
VARIABLES
    AUTH_USERS,             \* info.AUTH_USERS: the allow-list
    AUTH_CHANNEL,           \* info.AUTH_CHANNEL: the required channel, or None
    CACHE_TIME,             \* info.CACHE_TIME: the default cache duration
    CUSTOM_FILE_CAPTION,    \* info.CUSTOM_FILE_CAPTION: the template, or None
    FORCE_FRESH_CACHE,      \* the module's testing override
    BANNED_USERS,           \* temp.BANNED_USERS
    pc,                     \* where the handler of the current query stands
    query,                  \* the InlineQuery: from_user, query, offset
    admitted,               \* what `await inline_users(query)` returned
    subscribed,             \* what `await is_subscribed(bot, query)` returned
    string,                 \* the parsed search term
    file_type,              \* the parsed type filter
    offset,                 \* the parsed pagination offset
    searchCalls,            \* calls of get_search_results for this query
    files,                  \* } what get_search_results returned
    next_offset,            \* }
    total,                  \* }
    results,                \* the InlineQueryResultCachedDocument list
    answers,                \* the query.answer calls made for this query
    sendOutcome,            \* how the last query.answer call ended
    raised,                 \* the exception that left the handler, or "None"
    log                     \* what the handler logged for this query

config == <<AUTH_USERS, AUTH_CHANNEL, CACHE_TIME, CUSTOM_FILE_CAPTION,
            FORCE_FRESH_CACHE, BANNED_USERS>>
parsed == <<string, file_type, offset>>
page == <<files, next_offset, total>>
vars == <<config, pc, query, admitted, subscribed, parsed, searchCalls, page,
          results, answers, sendOutcome, raised, log>>

Terminal == {"DENIED_ACCESS", "DENIED_SUBSCRIPTION",
             "RESPONDED_WITH_RESULTS", "RESPONDED_EMPTY"}
Finished == Terminal \cup {"RAISED"}

NoQuery == [from_user |-> NoUser, query |-> <<>>, offset |-> None]

\* line 26: cache_time = 0 if AUTH_USERS or AUTH_CHANNEL else CACHE_TIME
cache_time == IF AUTH_USERS # {} \/ AUTH_CHANNEL # None THEN 0 ELSE CACHE_TIME

\* lines 123, 140: cache_time=0 if FORCE_FRESH_CACHE else cache_time
CacheTimeArg == IF FORCE_FRESH_CACHE THEN 0 ELSE cache_time

\* --------------------------------------------------------------- AccessGate
inline_users_ignoring_ban(q) ==
    IF AUTH_USERS # {}
    THEN q.from_user # NoUser /\ q.from_user \in AUTH_USERS
    ELSE q.from_user # NoUser

inline_users(q) ==
    IF AUTH_USERS # {}
    THEN q.from_user # NoUser /\ q.from_user \in AUTH_USERS
    ELSE q.from_user # NoUser /\ q.from_user \notin BANNED_USERS

\* A query.answer call: the arguments passed; is_personal FALSE and
\* next_offset None stand for an argument the call does not pass.
AccessDeniedAnswer_cached ==
    [results |-> <<>>, is_personal |-> FALSE, cache_time |-> CacheTimeArg,
     switch_pm_text |-> <<"okDa">>, switch_pm_parameter |-> "hehe",
     next_offset |-> None]

AccessDeniedAnswer ==
    [results |-> <<>>, is_personal |-> FALSE, cache_time |-> 0,
     switch_pm_text |-> <<"okDa">>, switch_pm_parameter |-> "hehe",
     next_offset |-> None]

SubscribeAnswer ==
    [results |-> <<>>, is_personal |-> FALSE, cache_time |-> 0,
     switch_pm_text |-> <<"You have to subscribe my channel to use the bot">>,
     switch_pm_parameter |-> "subscribe",
     next_offset |-> None]

\* ---------------------------------------------------------------- QueryParser
ParseQuery_last_bar(text) ==
    IF "|" \in Range(text)
    THEN LET i == CHOOSE k \in 1..Len(text) :
                      text[k] = "|" /\ \A j \in (k + 1)..Len(text) : text[j] # "|"
         IN  [string |-> strip(SubSeq(text, 1, i - 1)),
              file_type |-> lower(strip(SubSeq(text, i + 1, Len(text))))]
    ELSE [string |-> strip(text), file_type |-> None]

ParseQuery(text) ==
    IF "|" \in Range(text)
    THEN LET i == find(text, "|", 1)
         IN  [string |-> strip(SubSeq(text, 1, i - 1)),
              file_type |-> lower(strip(SubSeq(text, i + 1, Len(text))))]
    ELSE [string |-> strip(text), file_type |-> None]

\* line 75: int(query.offset or 0); ok FALSE is the ValueError int() raises
ParseOffset(token) ==
    IF token = None \/ token = <<>>
    THEN [ok |-> TRUE, value |-> 0]
    ELSE LET t == strip(token)
         IN  IF t # <<>> /\ \A i \in 1..Len(t) : IsDigit(t[i])
             THEN [ok |-> TRUE, value |-> DecimalValue(t)]
             ELSE [ok |-> FALSE, value |-> 0]

get_reply_markup(q) ==
    << <<[text |-> "HD MOVIES HUB", url |-> "https://t.me/+KJHSwIdswKUwZjU1"]>>,
       <<[text |-> "Search again", switch_inline_query_current_chat |-> q]>> >>

\* ------------------------------------------------------------ ResultFormatter
\* utils.get_size: a human-readable size string
get_size(size) == py_str(size) \o <<" B">>

OrEmpty(x) == IF x = None THEN <<>> ELSE x

\* str.format raises KeyError on a placeholder it is given no value for
FormatFails(template) == Range(template) \cap UnknownPlaceholders # {}

RECURSIVE format(_, _, _, _)
format(template, file_name, file_size, file_caption) ==
    IF template = <<>> THEN <<>>
    ELSE LET part == Head(template)
             text == IF part = "{file_name}" THEN file_name
                     ELSE IF part = "{file_size}" THEN file_size
                     ELSE IF part = "{file_caption}" THEN file_caption
                     ELSE <<part>>
         IN  text \o format(Tail(template), file_name, file_size, file_caption)

TemplateConfigured == CUSTOM_FILE_CAPTION # None /\ CUSTOM_FILE_CAPTION # <<>>

\* lines 86-103: the caption of one result
Caption_no_fallback(file) ==
    LET formatted ==
            IF TemplateConfigured
            THEN format(CUSTOM_FILE_CAPTION, OrEmpty(file.file_name),
                        OrEmpty(get_size(file.file_size)), OrEmpty(file.caption))
            ELSE file.caption
    IN  IF formatted = None THEN file.file_name ELSE formatted

Caption(file) ==
    LET title == file.file_name
        size == get_size(file.file_size)
        f_caption ==
            IF TemplateConfigured /\ ~FormatFails(CUSTOM_FILE_CAPTION)
            THEN format(CUSTOM_FILE_CAPTION, OrEmpty(title), OrEmpty(size),
                        OrEmpty(file.caption))
            ELSE file.caption
    IN  IF f_caption = None THEN file.file_name ELSE f_caption

\* lines 105-113
DisplayResult(file, reply_markup) ==
    [title |-> file.file_name,
     document_file_id |-> file.file_id,
     caption |-> Caption(file),
     description |-> <<"Size: ">> \o get_size(file.file_size)
                       \o <<"\nType: ">> \o file.file_type,
     reply_markup |-> reply_markup]

\* lines 97-98: one logger.exception per record whose formatting failed
FormatLog(fs) ==
    IF TemplateConfigured /\ FormatFails(CUSTOM_FILE_CAPTION)
    THEN [i \in 1..Len(fs) |-> "KeyError"]
    ELSE <<>>

\* ------------------------------------------------------------- ResponseSender
\* lines 116-118
ResultsPrompt(term, count) ==
    <<"FILE_FOLDER", " Results - ">> \o py_str(count)
        \o (IF term # <<>> THEN <<" for ">> \o term ELSE <<>>)

NoResultsPrompt_unquoted(term) ==
    <<"CROSS_MARK", " No results">>
        \o (IF term # <<>> THEN <<" for ">> \o term ELSE <<>>)

\* lines 133-135
NoResultsPrompt(term) ==
    <<"CROSS_MARK", " No results">>
        \o (IF term # <<>> THEN <<" for ", "\"">> \o term \o <<"\"">> ELSE <<>>)

\* line 126: str(next_offset)
NextOffsetToken(n) == IF n = EndOfResults THEN <<>> ELSE py_str(n)

ResultsAnswer_counting_page(rs, term, count, next) ==
    [results |-> rs, is_personal |-> TRUE, cache_time |-> CacheTimeArg,
     switch_pm_text |-> ResultsPrompt(term, Len(rs)),
     switch_pm_parameter |-> "start",
     next_offset |-> NextOffsetToken(next)]

\* lines 120-127
ResultsAnswer(rs, term, count, next) ==
    [results |-> rs, is_personal |-> TRUE, cache_time |-> CacheTimeArg,
     switch_pm_text |-> ResultsPrompt(term, count),
     switch_pm_parameter |-> "start",
     next_offset |-> NextOffsetToken(next)]

\* lines 137-143
NoResultsAnswer(term) ==
    [results |-> <<>>, is_personal |-> TRUE, cache_time |-> CacheTimeArg,
     switch_pm_text |-> NoResultsPrompt(term),
     switch_pm_parameter |-> "okay",
     next_offset |-> None]

\* ------------------------------------------------------------------ handler
Init ==
    /\ AUTH_USERS \in SUBSET UserIds
    /\ AUTH_CHANNEL \in Channels
    /\ CACHE_TIME \in CacheTimes
    /\ CUSTOM_FILE_CAPTION \in CaptionTemplates
    /\ FORCE_FRESH_CACHE \in BOOLEAN
    /\ BANNED_USERS \in SUBSET UserIds
    /\ pc = "IDLE"
    /\ query = NoQuery
    /\ admitted = "pending"
    /\ subscribed = "unchecked"
    /\ string = <<>>
    /\ file_type = None
    /\ offset = 0
    /\ searchCalls = 0
    /\ files = <<>>
    /\ next_offset = EndOfResults
    /\ total = 0
    /\ results = <<>>
    /\ answers = <<>>
    /\ sendOutcome = "None"
    /\ raised = "None"
    /\ log = <<>>

\* line 43: the dispatcher hands a new inline query to `answer`
Receive(user, text, token) ==
    /\ pc = "IDLE"
    /\ pc' = "RECEIVED"
    /\ query' = [from_user |-> user, query |-> text, offset |-> token]
    /\ UNCHANGED <<config, admitted, subscribed, parsed, searchCalls, page, results,
                   answers, sendOutcome, raised, log>>

\* lines 47-54; `sent` is how the query.answer call of the denial ends
AccessGate(sent) ==
    /\ pc = "RECEIVED"
    /\ IF inline_users(query)
       THEN /\ admitted' = "yes"
            /\ pc' = "ADMITTED"
            /\ UNCHANGED <<answers, sendOutcome, raised>>
       ELSE /\ admitted' = "no"
            /\ answers' = Append(answers, AccessDeniedAnswer)
            /\ sendOutcome' = sent
            /\ raised' = IF sent = "ok" THEN "None" ELSE sent
            /\ pc' = IF sent = "ok" THEN "DENIED_ACCESS" ELSE "RAISED"
    /\ UNCHANGED <<config, query, subscribed, parsed, searchCalls, page, results, log>>

\* line 56: AUTH_CHANNEL and ...
SubscriptionRequired_always == TRUE

SubscriptionRequired == AUTH_CHANNEL # None

\* lines 65-76: the parse that follows the gates
ParseStep ==
    LET p == ParseQuery(query.query)
        o == ParseOffset(query.offset)
    IN  /\ string' = p.string
        /\ file_type' = p.file_type
        /\ offset' = o.value
        /\ raised' = IF o.ok THEN "None" ELSE "ValueError"
        /\ pc' = IF o.ok THEN "PARSED" ELSE "RAISED"
        /\ UNCHANGED <<answers, sendOutcome>>

\* lines 56-76; `member` is what is_subscribed returns
SubscriptionGate(member, sent) ==
    /\ pc = "ADMITTED"
    /\ IF SubscriptionRequired
       THEN /\ subscribed' = IF member THEN "yes" ELSE "no"
            /\ IF member
               THEN ParseStep
               ELSE /\ answers' = Append(answers, SubscribeAnswer)
                    /\ sendOutcome' = sent
                    /\ raised' = IF sent = "ok" THEN "None" ELSE sent
                    /\ pc' = IF sent = "ok" THEN "DENIED_SUBSCRIPTION" ELSE "RAISED"
                    /\ UNCHANGED parsed
       ELSE /\ UNCHANGED subscribed
            /\ ParseStep
    /\ UNCHANGED <<config, query, admitted, searchCalls, page, results, log>>

\* lines 78-83; the collaborator returns a page or raises
Search(outcome, fs, next, slack) ==
    /\ pc = "PARSED"
    /\ searchCalls' = searchCalls + 1
    /\ IF outcome = "ok"
       THEN /\ files' = fs
            /\ next_offset' = next
            /\ total' = Len(fs) + slack
            /\ pc' = "SEARCHED"
            /\ UNCHANGED raised
       ELSE /\ raised' = "SearchError"
            /\ pc' = "RAISED"
            /\ UNCHANGED page
    /\ UNCHANGED <<config, query, admitted, subscribed, parsed, results, answers,
                   sendOutcome, log>>

\* lines 85-143: format every record, then send one of the two responses
Respond(sent) ==
    /\ pc = "SEARCHED"
    /\ LET reply_markup == get_reply_markup(string)
           rs == [i \in 1..Len(files) |-> DisplayResult(files[i], reply_markup)]
       IN  /\ results' = rs
           /\ sendOutcome' = sent
           /\ IF rs # <<>>
              THEN /\ answers' = Append(answers, ResultsAnswer(rs, string, total, next_offset))
                   /\ log' = FormatLog(files)
                               \o (IF sent = "RPCError" THEN <<"RPCError">> ELSE <<>>)
                   /\ pc' = "RESPONDED_WITH_RESULTS"
                   /\ UNCHANGED raised
              ELSE /\ answers' = Append(answers, NoResultsAnswer(string))
                   /\ log' = FormatLog(files)
                   /\ raised' = IF sent = "ok" THEN "None" ELSE sent
                   /\ pc' = IF sent = "ok" THEN "RESPONDED_EMPTY" ELSE "RAISED"
    /\ UNCHANGED <<config, query, admitted, subscribed, parsed, searchCalls, page>>

\* The coroutine has returned or raised: its locals are gone and nothing of
\* the query is kept for the next one.
Finish ==
    /\ pc \in Finished
    /\ pc' = "IDLE"
    /\ query' = NoQuery
    /\ admitted' = "pending"
    /\ subscribed' = "unchecked"
    /\ string' = <<>>
    /\ file_type' = None
    /\ offset' = 0
    /\ searchCalls' = 0
    /\ files' = <<>>
    /\ next_offset' = EndOfResults
    /\ total' = 0
    /\ results' = <<>>
    /\ answers' = <<>>
    /\ sendOutcome' = "None"
    /\ raised' = "None"
    /\ log' = <<>>
    /\ UNCHANGED config

Next ==
    \/ \E user \in UserIds \cup {NoUser}, text \in SampleQueries, token \in OffsetTokens :
           Receive(user, text, token)
    \/ \E sent \in SendOutcomes : AccessGate(sent)
    \/ \E member \in BOOLEAN, sent \in SendOutcomes : SubscriptionGate(member, sent)
    \/ \E outcome \in SearchOutcomes, fs \in SeqsUpTo(FileRecords, MaxFiles),
          next \in NextOffsets, slack \in TotalSlack :
           Search(outcome, fs, next, slack)
    \/ \E sent \in SendOutcomes : Respond(sent)
    \/ Finish

Spec == Init /\ [][Next]_vars

\* The parser alone: one admitted query in flight, its text drawn from every
\* string over QueryChars of at most MaxQueryLen characters.
InitParse ==
    /\ AUTH_USERS = {}
    /\ AUTH_CHANNEL = None
    /\ CACHE_TIME = 300
    /\ CUSTOM_FILE_CAPTION = None
    /\ FORCE_FRESH_CACHE = TRUE
    /\ BANNED_USERS = {}
    /\ pc = "RECEIVED"
    /\ query \in {[from_user |-> 1, query |-> text, offset |-> <<>>] :
                    text \in SeqsUpTo(QueryChars, MaxQueryLen)}
    /\ admitted = "pending"
    /\ subscribed = "unchecked"
    /\ string = <<>>
    /\ file_type = None
    /\ offset = 0
    /\ searchCalls = 0
    /\ files = <<>>
    /\ next_offset = EndOfResults
    /\ total = 0
    /\ results = <<>>
    /\ answers = <<>>
    /\ sendOutcome = "None"
    /\ raised = "None"
    /\ log = <<>>

SpecParse == InitParse /\ [][Next]_vars

\* ------------------------------------------------------------------- claims
HasSuffix(s, t) == Len(t) <= Len(s) /\ SubSeq(s, Len(s) - Len(t) + 1, Len(s)) = t

TermPart(term) == IF term # <<>> THEN <<" for ">> \o term ELSE <<>>

\* t is s without its leading and trailing whitespace
IsStripOf(t, s) ==
    \E i \in 0..Len(s), j \in 0..Len(s) :
        /\ i + j <= Len(s)
        /\ t = SubSeq(s, i + 1, Len(s) - j)
        /\ \A k \in 1..i : s[k] \in Whitespace
        /\ \A k \in (Len(s) - j + 1)..Len(s) : s[k] \in Whitespace
        /\ t # <<>> => (t[1] \notin Whitespace /\ t[Len(t)] \notin Whitespace)

\* t is s with its upper-case letters replaced by their lower-case ones
IsLowerOf(t, s) ==
    /\ Len(t) = Len(s)
    /\ \A i \in 1..Len(s) :
          \/ s[i] = "B" /\ t[i] = "b"
          \/ s[i] # "B" /\ t[i] = s[i]

\* C1 as stated: with a non-empty allow-list a query is admitted iff its user
\* is on the list; with an empty one the only queries denied are those of a
\* banned user.
C1_AdmissionAsStated ==
    admitted # "pending" =>
        (admitted = "yes" <=>
            IF AUTH_USERS # {}
            THEN query.from_user \in AUTH_USERS
            ELSE query.from_user \notin BANNED_USERS)

\* C1 amended: with an empty allow-list the queries denied are those of a
\* banned user and those that carry no sender.
C1_Admission ==
    admitted # "pending" =>
        (admitted = "yes" <=>
            IF AUTH_USERS # {}
            THEN query.from_user \in AUTH_USERS
            ELSE query.from_user # NoUser /\ query.from_user \notin BANNED_USERS)

C1_Witness ==
    /\ AUTH_USERS = {}
    /\ admitted = "no"
    /\ query.from_user = NoUser

\* C2: a query the access gate denies is answered with no results, cache
\* time 0 and no pagination offset, whatever CACHE_TIME and FORCE_FRESH_CACHE.
C2_DenialAnswer ==
    admitted = "no" =>
        /\ Len(answers) = 1
        /\ answers[1].results = <<>>
        /\ answers[1].cache_time = 0
        /\ answers[1].next_offset = None

C2_Witness ==
    /\ admitted = "no"
    /\ ~FORCE_FRESH_CACHE
    /\ CACHE_TIME > 0
    /\ AUTH_USERS = {}
    /\ AUTH_CHANNEL = None

\* C3: is_subscribed is called only for an admitted query and only with a
\* required channel configured; get_search_results is never called for a
\* query the access gate denied or whose subscription check failed; a failed
\* subscription check ends the handler with an empty-result answer.
C3_GateOrdering ==
    /\ subscribed # "unchecked" => (admitted = "yes" /\ AUTH_CHANNEL # None)
    /\ pc \in {"PARSED", "SEARCHED"} \/ searchCalls > 0 =>
          /\ admitted = "yes"
          /\ subscribed # "no"
          /\ AUTH_CHANNEL # None => subscribed = "yes"
    /\ subscribed = "no" =>
          /\ searchCalls = 0
          /\ pc \in {"DENIED_SUBSCRIPTION", "RAISED"}
          /\ Len(answers) = 1
          /\ answers[1].results = <<>>

C3_Witness ==
    /\ subscribed = "no"
    /\ pc = "DENIED_SUBSCRIPTION"
    /\ searchCalls = 0

\* C4: an admitted query whose offset token is a non-empty non-numeric string
\* does not end with an unhandled error; an absent or empty token is offset 0.
C4_MalformedOffset ==
    /\ (/\ admitted = "yes"
        /\ query.offset \notin {None, <<>>}
        /\ \E i \in 1..Len(query.offset) : ~IsDigit(query.offset[i]))
          => raised # "ValueError"
    /\ (pc = "PARSED" /\ query.offset \in {None, <<>>}) => offset = 0

\* C5: a failed send never leaves the handler: the expired-query error is
\* swallowed silently, any other error is logged, and the handler completes.
C5_SendFailuresNotPropagated ==
    /\ sendOutcome = "QueryIdInvalid" =>
          (raised = "None" /\ "RPCError" \notin Range(log))
    /\ sendOutcome = "RPCError" =>
          (raised = "None" /\ "RPCError" \in Range(log))

\* C6 as stated: with N > 0 records returned the prompt holds the count N of
\* returned results, then the unquoted term if it is non-empty.
C6_PromptCountsReturned ==
    (results # <<>> /\ Len(answers) = 1) =>
        HasSuffix(answers[1].switch_pm_text,
                  py_str(Len(results)) \o TermPart(string))

\* C6 amended: with N > 0 records returned the prompt holds the total the
\* search collaborator reported (not N), then " for " and the unquoted term
\* if the term is non-empty and nothing otherwise.
C6_PromptCountsTotal ==
    (results # <<>> /\ Len(answers) = 1) =>
        /\ Len(results) = Len(files)
        /\ answers[1].results = results
        /\ HasSuffix(answers[1].switch_pm_text,
                     <<" Results - ">> \o py_str(total) \o TermPart(string))
        /\ "\"" \notin Range(answers[1].switch_pm_text)

C6_Witness ==
    /\ pc = "RESPONDED_WITH_RESULTS"
    /\ total # Len(results)
    /\ string # <<>>

\* C7: a query text with '|' is split on its first '|' only: the term is the
\* stripped left part, the file type the stripped and lower-cased right part;
\* a text without '|' has file type None and the stripped text as its term.
C7_QueryParsing ==
    pc = "PARSED" =>
        LET text == query.query
        IN  IF \E k \in 1..Len(text) : text[k] = "|"
            THEN \E k \in 1..Len(text) :
                    /\ text[k] = "|"
                    /\ \A j \in 1..(k - 1) : text[j] # "|"
                    /\ IsStripOf(string, SubSeq(text, 1, k - 1))
                    /\ file_type # None
                    /\ \E a \in 1..(Len(text) + 1), b \in 0..Len(text) :
                          /\ IsStripOf(SubSeq(text, a, b), SubSeq(text, k + 1, Len(text)))
                          /\ IsLowerOf(file_type, SubSeq(text, a, b))
            ELSE file_type = None /\ IsStripOf(string, text)

C7_Witness ==
    /\ pc = "PARSED"
    /\ Cardinality({k \in 1..Len(query.query) : query.query[k] = "|"}) >= 2
    /\ "|" \in Range(file_type)
    /\ "b" \in Range(file_type)
    /\ string # <<>>

\* C8: when the search returns no record the answer has an empty result list
\* and its prompt holds "No results", followed by the term in double quotes
\* iff the term is non-empty.
C8_NoResultsPrompt ==
    (admitted = "yes" /\ searchCalls = 1 /\ files = <<>> /\ Len(answers) = 1) =>
        LET prompt == answers[1].switch_pm_text
        IN  /\ answers[1].results = <<>>
            /\ " No results" \in Range(prompt)
            /\ string # <<>> =>
                  HasSuffix(prompt, <<" No results", " for ", "\"">> \o string \o <<"\"">>)
            /\ string = <<>> => HasSuffix(prompt, <<"CROSS_MARK", " No results">>)

C8_Witness ==
    /\ pc = "RESPONDED_EMPTY"
    /\ string # <<>>

\* C9 as stated: with a template configured, a result's caption is the
\* record's original caption when formatting fails and the substituted
\* template when it succeeds.
C9_CaptionAsStated ==
    (results # <<>> /\ TemplateConfigured) =>
        \A i \in 1..Len(results) :
            results[i].caption =
                IF FormatFails(CUSTOM_FILE_CAPTION)
                THEN files[i].caption
                ELSE format(CUSTOM_FILE_CAPTION, files[i].file_name,
                            get_size(files[i].file_size), OrEmpty(files[i].caption))

\* C9 amended: when formatting fails the caption is the record's original
\* caption if the record has one and the record's file name if it has none;
\* when formatting succeeds it is the substituted template.
C9_CaptionFallback ==
    (results # <<>> /\ TemplateConfigured) =>
        /\ Len(results) = Len(files)
        /\ \A i \in 1..Len(results) :
            results[i].caption =
                IF FormatFails(CUSTOM_FILE_CAPTION)
                THEN IF files[i].caption # None
                     THEN files[i].caption
                     ELSE files[i].file_name
                ELSE format(CUSTOM_FILE_CAPTION, files[i].file_name,
                            get_size(files[i].file_size), OrEmpty(files[i].caption))

C9_Witness ==
    /\ results # <<>>
    /\ TemplateConfigured
    /\ FormatFails(CUSTOM_FILE_CAPTION)
    /\ \E i \in 1..Len(files) : files[i].caption = None

\* C10: every handled query walks RECEIVED -> DENIED_ACCESS, RECEIVED ->
\* DENIED_SUBSCRIPTION or RECEIVED -> PARSED -> SEARCHED -> RESPONDED_*, ends
\* in one of the four terminal states, is answered at most once (exactly once
\* when it ends) and searched at most once.
C10_PerQueryStateMachine ==
    /\ pc \in {"IDLE", "RECEIVED", "ADMITTED", "PARSED", "SEARCHED"} \cup Terminal
    /\ Len(answers) <= 1
    /\ searchCalls <= 1
    /\ pc \in Terminal => Len(answers) = 1
    /\ pc = "DENIED_ACCESS" => (admitted = "no" /\ searchCalls = 0)
    /\ pc = "DENIED_SUBSCRIPTION" => (subscribed = "no" /\ searchCalls = 0)
    /\ pc \in {"RESPONDED_WITH_RESULTS", "RESPONDED_EMPTY"} => searchCalls = 1

====
